---- MODULE Spec2Model ----
(***************************************************************************)
(* A model of the index builder (src/src/index/index_builder.py), of the   *)
(* data processor that feeds it (src/src/data/processing) and of the       *)
(* portfolio optimizer (src/src/portfolio/portfolio_optimizer.py), and of   *)
(* the retry loop of the Yahoo Finance loader                               *)
(* (src/src/data/loaders/yf_loader.py).                                     *)
(*                                                                         *)
(* Floating-point values are modelled as exact fractions <<n, d>> with     *)
(* d > 0, plus the three IEEE specials: NaN = <<0,0>>, +inf = <<1,0>>,     *)
(* -inf = <<-1,0>>.  Only the square root rounds (to a grid of 1/SqrtGrid).*)
(***************************************************************************)
EXTENDS Integers, Sequences, FiniteSets, TLC

\* ------------------------------------------------------------------ bounds
\* the number of dates a table spans
MaxDate == 3

\* the largest rolling_window passed to the risk-parity builder
MaxWindow == 3

\* the grid the square root is rounded to
SqrtGrid == 16

\* the modulus of the modelled random generator, and the number of values a draw
\* takes
RngMod == 16

DrawLevels == 4

\* the largest seed and the largest iteration count passed to PortfolioOptimizer
MaxSeed == 1

MaxIterations == 2

\* the largest n_points passed to calculate_efficient_frontier
MaxPoints == 2

\* trading periods per year
TradingDays == 252

\* the largest max_retries a YFinanceLoader is constructed with
MaxRetries == 3

\* the values a generated table is made of: 0 is "no row", the others a closing
\* price (or, in a hand-made Return Panel, the return (code - 2) / 2)
PriceCodes == {0, 1, 2}

Dates == 1..MaxDate
Symbols == {"A", "B"}
SymbolOrder == <<"A", "B">>

\* ------------------------------------------------------------------ floats
Abs(x) == IF x < 0 THEN -x ELSE x

Sign(x) == IF x < 0 THEN -1 ELSE IF x > 0 THEN 1 ELSE 0

RECURSIVE Gcd(_, _)
Gcd(a, b) == IF b = 0 THEN a ELSE Gcd(b, a % b)

NaN == <<0, 0>>

PosInf == <<1, 0>>

NegInf == <<-1, 0>>

Zero == <<0, 1>>

One == <<1, 1>>

IsNaN(x) == x = NaN

IsInf(x) == x[2] = 0 /\ x[1] # 0

IsFinite(x) == x[2] > 0

\* the fraction n/d (d # 0) in lowest terms with a positive denominator
Frac(n, d) ==
    LET g == Gcd(Abs(n), Abs(d))
        s == IF d < 0 THEN -1 ELSE 1
    IN  <<(s * n) \div g, (s * d) \div g>>

Int2F(k) == <<k, 1>>

FNeg(x) == <<-x[1], x[2]>>

FAdd(x, y) ==
    IF IsNaN(x) \/ IsNaN(y) THEN NaN
    ELSE IF IsInf(x) /\ IsInf(y) THEN (IF x = y THEN x ELSE NaN)
    ELSE IF IsInf(x) THEN x
    ELSE IF IsInf(y) THEN y
    ELSE Frac(x[1] * y[2] + y[1] * x[2], x[2] * y[2])

FSub(x, y) == FAdd(x, FNeg(y))

FMul(x, y) ==
    IF IsNaN(x) \/ IsNaN(y) THEN NaN
    ELSE IF IsInf(x) \/ IsInf(y)
         THEN (IF x[1] = 0 \/ y[1] = 0 THEN NaN
               ELSE <<Sign(x[1]) * Sign(y[1]), 0>>)
    ELSE Frac(x[1] * y[1], x[2] * y[2])

\* numpy division: x/0 is +-inf, 0/0 is NaN, none raises
FDiv(x, y) ==
    IF IsNaN(x) \/ IsNaN(y) THEN NaN
    ELSE IF IsInf(x) THEN (IF IsInf(y) THEN NaN
                           ELSE <<x[1] * (IF y[1] < 0 THEN -1 ELSE 1), 0>>)
    ELSE IF IsInf(y) THEN Zero
    ELSE IF y[1] = 0 THEN <<Sign(x[1]), 0>>
    ELSE Frac(x[1] * y[2], x[2] * y[1])

\* x < y on non-NaN values (any comparison with NaN is false)
FLt(x, y) ==
    IF IsNaN(x) \/ IsNaN(y) THEN FALSE
    ELSE IF x = y THEN FALSE
    ELSE IF x = NegInf \/ y = PosInf THEN TRUE
    ELSE IF x = PosInf \/ y = NegInf THEN FALSE
    ELSE x[1] * y[2] < y[1] * x[2]

FLe(x, y) == (~IsNaN(x) /\ x = y) \/ FLt(x, y)

\* the largest r with r*r <= n, by bisection between lo (lo*lo <= n) and hi (hi*hi > n)
RECURSIVE ISqrtBetween(_, _, _)
ISqrtBetween(n, lo, hi) ==
    IF hi - lo <= 1 THEN lo
    ELSE IF ((lo + hi) \div 2) * ((lo + hi) \div 2) <= n
         THEN ISqrtBetween(n, (lo + hi) \div 2, hi)
    ELSE ISqrtBetween(n, lo, (lo + hi) \div 2)

ISqrt(n) == ISqrtBetween(n, 0, IF n < 46340 THEN n + 1 ELSE 46341)

\* np.sqrt: NaN for a negative argument, rounded down to the grid otherwise
FSqrt(x) ==
    IF IsNaN(x) \/ x = NegInf THEN NaN
    ELSE IF x = PosInf THEN PosInf
    ELSE IF x[1] < 0 THEN NaN
    ELSE Frac(ISqrt((x[1] * SqrtGrid * SqrtGrid) \div x[2]), SqrtGrid)

\* the sequence <<F(1), ..., F(n)>>, built element by element
RECURSIVE SeqMap(_, _)
SeqMap(F(_), n) == IF n = 0 THEN <<>> ELSE Append(SeqMap(F, n - 1), F(n))

\* the sum of a sequence, NaN propagating
RECURSIVE FSumSeq(_)
FSumSeq(s) == IF s = <<>> THEN Zero ELSE FAdd(Head(s), FSumSeq(Tail(s)))

\* pandas' skipna: drop the NaN entries of a sequence
RECURSIVE DropNaN(_)
DropNaN(s) ==
    IF s = <<>> THEN <<>>
    ELSE IF IsNaN(Head(s)) THEN DropNaN(Tail(s))
    ELSE <<Head(s)>> \o DropNaN(Tail(s))

\* Series.sum(): NaN entries are skipped, an empty or all-NaN sum is 0
SkipNaSum(s) == FSumSeq(DropNaN(s))

\* Series.mean(): NaN entries are skipped, an empty or all-NaN mean is NaN
MeanOf(v) == IF v = <<>> THEN NaN ELSE FDiv(FSumSeq(v), Int2F(Len(v)))

SkipNaMean(s) == MeanOf(DropNaN(s))

\* ------------------------------------------------------------------ tables
\* A table is [cols, cell]: cell[s][d] is the row of symbol s at date d, if any.
\* (Date, Symbol) is unique and rows are kept in (Symbol, Date) order.
NoRow == [present |-> FALSE, Close |-> NaN, Return |-> NaN, Close_normalized |-> NaN]

Row(c, r, n) == [present |-> TRUE, Close |-> c, Return |-> r, Close_normalized |-> n]

\* the generated tables: asset "A" has a row at every date, asset "B" may have a
\* shorter or a sparse history.  The last two dates take every code; the dates
\* before them all carry code 1, or (asset "B") no row.
Codes ==
    {t \in [Symbols -> [Dates -> PriceCodes]] :
        /\ \A d \in Dates : t["A"][d] # 0
        /\ \A s \in Symbols : \A d \in Dates :
              d <= MaxDate - 2 => t[s][d] = t[s][1] /\ t[s][d] # 2}

\* an unprocessed OHLCV table as the loaders deliver it: closing prices only
RawTable(t) ==
    [cols |-> {"Date", "Symbol", "Close"},
     cell |-> [s \in Symbols |-> [d \in Dates |->
                 IF t[s][d] = 0 THEN NoRow ELSE Row(Int2F(t[s][d]), NaN, NaN)]]]

\* a hand-made Return Panel: returns only, (code - 2) / 2 each
ReturnTable(t) ==
    [cols |-> {"Date", "Symbol", "Return"},
     cell |-> [s \in Symbols |-> [d \in Dates |->
                 IF t[s][d] = 0 THEN NoRow ELSE Row(NaN, Frac(t[s][d] - 2, 2), NaN)]]]

RECURSIVE SortedSeq(_)
SortedSeq(S) ==
    IF S = {} THEN <<>>
    ELSE LET m == CHOOSE m \in S : \A y \in S : m <= y
         IN  <<m>> \o SortedSeq(S \ {m})

\* the dates of a symbol's rows, ascending
RowDates(df, s) == SortedSeq({d \in Dates : df.cell[s][d].present})

\* groupby("Date"): the dates that have a row, ascending
GroupDates(df) == SortedSeq({d \in Dates : \E s \in Symbols : df.cell[s][d].present})

\* the symbols that have a row, in column (sorted) order
SymbolSeq(df) ==
    SelectSeq(SymbolOrder, LAMBDA s : \E d \in Dates : df.cell[s][d].present)

\* the values of one column in the rows of date d
RECURSIVE ColumnOf(_, _, _, _)
ColumnOf(df, col, d, ss) ==
    IF ss = <<>> THEN <<>>
    ELSE IF df.cell[Head(ss)][d].present
         THEN <<df.cell[Head(ss)][d][col]>> \o ColumnOf(df, col, d, Tail(ss))
    ELSE ColumnOf(df, col, d, Tail(ss))

ColumnAt(df, col, d) == ColumnOf(df, col, d, SymbolOrder)

\* ------------------------------------------------------------------ DataProcessor
\* the date of the row before d among the rows of s (0: none)
PrevRowDate(df, s, d) ==
    LET before == {e \in Dates : e < d /\ df.cell[s][e].present}
    IN  IF before = {} THEN 0 ELSE CHOOSE e \in before : \A f \in before : f <= e

\* groupby("Symbol")["Close"].pct_change(): close / previous close - 1
pct_change(df, s, d) ==
    LET p == PrevRowDate(df, s, d)
    IN  IF p = 0 THEN NaN
        ELSE FSub(FDiv(df.cell[s][d].Close, df.cell[s][p].Close), One)

\* x / x.iloc[0] within the rows of one symbol
rebasing_normalization(df, s, d) ==
    FDiv(df.cell[s][d].Close, df.cell[s][RowDates(df, s)[1]].Close)

\* process_data with the default normalize_method ("rebasing")
process_data(df) ==
    [cols |-> df.cols \cup {"Return", "Close_normalized"},
     cell |-> [s \in Symbols |-> [d \in Dates |->
                 IF ~df.cell[s][d].present THEN NoRow
                 ELSE Row(df.cell[s][d].Close, pct_change(df, s, d),
                          rebasing_normalization(df, s, d))]]]

\* ------------------------------------------------------------------ series
\* Series.cumprod(): a NaN entry stays NaN and is skipped by the running product
RECURSIVE CumProdFrom(_, _)
CumProdFrom(s, acc) ==
    IF s = <<>> THEN <<>>
    ELSE IF IsNaN(Head(s)) THEN <<NaN>> \o CumProdFrom(Tail(s), acc)
    ELSE <<FMul(acc, Head(s))>> \o CumProdFrom(Tail(s), FMul(acc, Head(s)))

cumprod(s) == CumProdFrom(s, One)

\* .add(1).cumprod().mul(base_value).reset_index(): a sequence of <<date, value>>
ScaledSeries(dates, cp, base_value) ==
    SeqMap(LAMBDA i : <<dates[i], FMul(cp[i], base_value)>>, Len(dates))

CompoundedIndex(dates, growth, base_value) ==
    ScaledSeries(dates,
                 cumprod(SeqMap(LAMBDA i : FAdd(growth[i], One), Len(dates))),
                 base_value)

\* ------------------------------------------------------------------ outcomes
\* What a call ends in: a returned series (kind "ok") or a raised exception of the
\* Python class `kind`.  `builder` is the builder whose body ran ("none": no body),
\* `lists` the option names the message spells out, `weights` the per-date weights
\* the builder worked with (risk parity and value weighting).
Raise(kind, msg, lists, builder) ==
    [kind |-> kind, msg |-> msg, lists |-> lists, builder |-> builder,
     series |-> <<>>, weights |-> <<>>]

Return(builder, series, weights) ==
    [kind |-> "ok", msg |-> "", lists |-> {}, builder |-> builder,
     series |-> series, weights |-> weights]

\* ------------------------------------------------------------------ IndexBuilder
\* __init__: the table is copied; the shares attribute is set only when a table
\* is passed (shares[s] = 0: the attribute does not exist)
NoShares == [s \in Symbols |-> 0]

SharesTables == {[s \in Symbols |-> IF s = "A" THEN 1 ELSE 2]}

IndexBuilder_init(input, shares_outstanding_data) ==
    [constructed |-> TRUE, data |-> input,
     has_shares |-> shares_outstanding_data # NoShares,
     shares_outstanding_data |-> shares_outstanding_data]

\* groupby("Date")["Return"].mean()
EqualMeans(df, dates) ==
    SeqMap(LAMBDA i : SkipNaMean(ColumnAt(df, "Return", dates[i])), Len(dates))

build_equal_weighted_index(self, base_value) ==
    IF "Return" \notin self.data.cols
    THEN Raise("ValueError",
               "Input data must contain 'Return' column. Please run DataProcessor first.",
               {}, "equal")
    ELSE Return("equal",
                CompoundedIndex(GroupDates(self.data),
                                EqualMeans(self.data, GroupDates(self.data)),
                                base_value),
                <<>>)

\* Symbol.nunique()
\* mutant: the divisor is 1
nunique_ignored(df) == 1

nunique(df) == Len(SymbolSeq(df))

\* groupby("Date")["Close_normalized"].sum().div(Symbol.nunique()).reset_index()
PriceSeries(df, dates) ==
    SeqMap(LAMBDA i : <<dates[i],
                        FDiv(SkipNaSum(ColumnAt(df, "Close_normalized", dates[i])),
                             Int2F(nunique(df)))>>,
           Len(dates))

build_price_weighted_index(self) ==
    IF "Close_normalized" \notin self.data.cols
    THEN Raise("ValueError",
               "Input data must contain 'Close_normalized' column. Please run DataProcessor first.",
               {}, "price")
    ELSE Return("price", PriceSeries(self.data, GroupDates(self.data)), <<>>)

\* mutant: the market cap ignores the shares outstanding
Daily_Market_Cap_without_shares(self, s, d) == self.data.cell[s][d].Close

\* merged_df["Daily_Market_Cap"] of the row of s at d
Daily_Market_Cap(self, s, d) ==
    FMul(self.data.cell[s][d].Close, Int2F(self.shares_outstanding_data[s]))

\* groupby("Date")["Daily_Market_Cap"].sum() at d
total_market_cap(self, d) ==
    SkipNaSum(SeqMap(LAMBDA k : IF self.data.cell[SymbolOrder[k]][d].present
                                THEN Daily_Market_Cap(self, SymbolOrder[k], d)
                                ELSE NaN,
                     Len(SymbolOrder)))

\* merged_df["Weight"] at date d, one entry per symbol of SymbolOrder (NaN where
\* the symbol has no row at d)
ValueWeightsOf(self, d, total) ==
    SeqMap(LAMBDA k : IF ~self.data.cell[SymbolOrder[k]][d].present THEN NaN
                      ELSE FDiv(Daily_Market_Cap(self, SymbolOrder[k], d), total),
           Len(SymbolOrder))

ValueWeights(self, dates) ==
    SeqMap(LAMBDA i : ValueWeightsOf(self, dates[i], total_market_cap(self, dates[i])),
           Len(dates))

\* groupby("Date")["Weighted_Return"].sum(), with Weighted_Return = Return * Weight
Weighted_Return(df, dates, cols, w) ==
    SeqMap(LAMBDA i : SkipNaSum(SeqMap(LAMBDA k :
                          FMul(df.cell[cols[k]][dates[i]].Return, w[i][k]), Len(cols))),
           Len(dates))

WeightedIndex(builder, df, dates, cols, w, base_value) ==
    Return(builder,
           CompoundedIndex(dates, Weighted_Return(df, dates, cols, w), base_value), w)

build_value_weighted_index(self, base_value) ==
    IF ~self.has_shares
    THEN \* line 76 reads an attribute that __init__ never set
         Raise("AttributeError",
               "'IndexBuilder' object has no attribute 'shares_outstanding_data'",
               {}, "value")
    ELSE IF "Close" \notin self.data.cols THEN Raise("KeyError", "Close", {}, "value")
    ELSE IF "Return" \notin self.data.cols THEN Raise("KeyError", "Return", {}, "value")
    ELSE WeightedIndex("value", self.data, GroupDates(self.data), SymbolOrder,
                       ValueWeights(self, GroupDates(self.data)), base_value)

\* the columns lines 81-97 add: they are assigned on merged_df, the new frame that
\* pd.merge returned
MergedColumns == {"sharesOutstanding", "Daily_Market_Cap", "Weight", "Weighted_Return"}

\* mutant: the columns are assigned on self.data itself
self_after_value_build_in_place(self) ==
    [self EXCEPT !.data.cols = @ \cup MergedColumns]

\* the IndexBuilder after build_value_weighted_index: self.data is only read
self_after_value_build(self) == self

\* data.pivot(index="Date", columns="Symbol", values="Return"): the value at row i
\* (a date with a row) and column s, NaN where (date, symbol) has no row
pivot(df, dates, s, i) == df.cell[s][dates[i]].Return

\* the non-NaN observations of column s in the window of `rolling_window` rows
\* that ends at row i
WindowObs(df, dates, s, i, rolling_window) ==
    LET lo == IF i - rolling_window + 1 < 1 THEN 1 ELSE i - rolling_window + 1
    IN  DropNaN(SeqMap(LAMBDA k : pivot(df, dates, s, lo + k - 1), i - lo + 1))

\* the sample variance (ddof = 1) of a sequence of at least two observations
SumSqDev(obs, m) ==
    FSumSeq(SeqMap(LAMBDA k : FMul(FSub(obs[k], m), FSub(obs[k], m)), Len(obs)))

SampleVar(obs) == FDiv(SumSqDev(obs, MeanOf(obs)), Int2F(Len(obs) - 1))

\* the sample standard deviation; NaN with fewer than two observations
StdOf(obs) == IF Len(obs) < 2 THEN NaN ELSE FSqrt(SampleVar(obs))

\* rolling(window, min_periods=1).std()
rolling_std(df, dates, s, i, rolling_window) ==
    StdOf(WindowObs(df, dates, s, i, rolling_window))

fillna0(x) == IF IsNaN(x) THEN Zero ELSE x

\* mutant: the infinities are left in place
replace_inf_kept(x) == x

\* replace([np.inf, -np.inf], np.nan)
replace_inf(x) == IF IsInf(x) THEN NaN ELSE x

\* mutant: an undefined volatility is filled with 1
volatility_filled_one(df, dates, s, i, rolling_window) ==
    IF IsNaN(rolling_std(df, dates, s, i, rolling_window)) THEN One
    ELSE rolling_std(df, dates, s, i, rolling_window)

volatility(df, dates, s, i, rolling_window) ==
    fillna0(rolling_std(df, dates, s, i, rolling_window))

inverse_volatility(df, dates, s, i, rolling_window) ==
    fillna0(replace_inf(FDiv(One, volatility(df, dates, s, i, rolling_window))))

\* the weights of row i, one per column of the pivoted table
\* inverse_volatility.div(sum_inverse_volatility, axis=0), then fillna(0)
NormalizeRow(inv, sum_inverse_volatility) ==
    SeqMap(LAMBDA k : fillna0(FDiv(inv[k], sum_inverse_volatility)), Len(inv))

WeightsOfRow(inv) == NormalizeRow(inv, SkipNaSum(inv))

risk_parity_weights(df, dates, cols, i, rolling_window) ==
    WeightsOfRow(SeqMap(LAMBDA k : inverse_volatility(df, dates, cols[k], i, rolling_window),
                        Len(cols)))

RiskParityWeights(df, dates, cols, rolling_window) ==
    SeqMap(LAMBDA i : risk_parity_weights(df, dates, cols, i, rolling_window), Len(dates))

build_risk_parity_index(self, base_value, rolling_window) ==
    IF "Return" \notin self.data.cols THEN Raise("KeyError", "Return", {}, "risk_parity")
    ELSE WeightedIndex("risk_parity", self.data, GroupDates(self.data),
                       SymbolSeq(self.data),
                       RiskParityWeights(self.data, GroupDates(self.data),
                                         SymbolSeq(self.data), rolling_window),
                       base_value)

IndexTypes == {"equal", "price", "value", "risk_parity"}

\* mutant: an unknown type falls back to the equal-weighted builder
build_index_fallback(self, type, base_value, rolling_window) ==
    IF type = "price" THEN build_price_weighted_index(self)
    ELSE IF type = "value" THEN build_value_weighted_index(self, base_value)
    ELSE IF type = "risk_parity"
         THEN build_risk_parity_index(self, base_value, rolling_window)
    ELSE build_equal_weighted_index(self, base_value)

build_index(self, type, base_value, rolling_window) ==
    IF type = "equal" THEN build_equal_weighted_index(self, base_value)
    ELSE IF type = "price" THEN build_price_weighted_index(self)
    ELSE IF type = "value" THEN build_value_weighted_index(self, base_value)
    ELSE IF type = "risk_parity"
         THEN build_risk_parity_index(self, base_value, rolling_window)
    ELSE Raise("ValueError",
               "Invalid index type. Choose 'equal', 'price', 'value', or 'risk_parity'.",
               {"equal", "price", "value", "risk_parity"}, "none")

\* ------------------------------------------------------------------ numpy's global generator
\* np.random is one process-wide generator.  It is modelled as a linear
\* congruential generator over 0..RngMod-1; a draw advances the state and yields
\* one of the DrawLevels values k / DrawLevels of [0, 1), 0.0 included.
NextRng(s) == (5 * s + 3) % RngMod

\* mutant: seeding leaves the generator where it is
np_random_seed_ignored(s, seed) == s

\* np.random.seed(seed): the state is a function of the seed alone
np_random_seed(s, seed) == (7 * seed + 1) % RngMod

DrawOf(s) == Frac(s % DrawLevels, DrawLevels)

\* the generator's state after n draws
RECURSIVE RngAfter(_, _)
RngAfter(s, n) == IF n = 0 THEN s ELSE RngAfter(NextRng(s), n - 1)

\* np.random.rand(rows, cols): row-major draws; entry [i][k] is draw (i-1)*cols + k
np_random_rand(s, rows, cols) ==
    SeqMap(LAMBDA i : SeqMap(LAMBDA k : DrawOf(RngAfter(s, (i - 1) * cols + k)), cols),
           rows)

\* ------------------------------------------------------------------ PortfolioOptimizer
HasReturn(df, s, d) == df.cell[s][d].present /\ ~IsNaN(df.cell[s][d].Return)

\* pivot_table(index="Date", columns="Symbol", values="Return"): entries without a
\* return are dropped, and with them the dates and symbols that have none left
PivotDates(df) == SortedSeq({d \in Dates : \E s \in Symbols : HasReturn(df, s, d)})

PivotCols(df) == SelectSeq(SymbolOrder, LAMBDA s : \E d \in Dates : HasReturn(df, s, d))

\* the pivoted returns, one sequence per column
PivotColumns(df, dates, cols) ==
    SeqMap(LAMBDA k : SeqMap(LAMBDA i : IF HasReturn(df, cols[k], dates[i])
                                        THEN df.cell[cols[k]][dates[i]].Return
                                        ELSE NaN,
                             Len(dates)),
           Len(cols))

\* the entries of x and y at the rows where both are defined, as pairs
RECURSIVE PairwiseObs(_, _)
PairwiseObs(x, y) ==
    IF x = <<>> THEN <<>>
    ELSE IF IsNaN(Head(x)) \/ IsNaN(Head(y)) THEN PairwiseObs(Tail(x), Tail(y))
    ELSE <<<<Head(x), Head(y)>>>> \o PairwiseObs(Tail(x), Tail(y))

CovOfObs(obs, mx, my) ==
    FDiv(FSumSeq(SeqMap(LAMBDA i : FMul(FSub(obs[i][1], mx), FSub(obs[i][2], my)),
                        Len(obs))),
         Int2F(Len(obs) - 1))

PairCov(obs) ==
    IF Len(obs) < 2 THEN NaN
    ELSE CovOfObs(obs, MeanOf(SeqMap(LAMBDA i : obs[i][1], Len(obs))),
                  MeanOf(SeqMap(LAMBDA i : obs[i][2], Len(obs))))

\* returns.cov() * 252: pairwise-complete sample covariance, annualized
cov_matrix(columns) ==
    SeqMap(LAMBDA j : SeqMap(LAMBDA k :
               FMul(PairCov(PairwiseObs(columns[j], columns[k])), Int2F(TradingDays)),
               Len(columns)),
           Len(columns))

NoOptimizer ==
    [constructed |-> FALSE, data |-> RawTable([s \in Symbols |-> [d \in Dates |-> 0]]),
     risk_free_rate |-> Zero, iterations |-> 0, returns |-> <<>>, columns |-> <<>>,
     n_rows |-> 0, n_assets |-> 0, mean_returns |-> <<>>, cov_matrix |-> <<>>]

MakeOptimizer(input, risk_free_rate, iterations, dates, cols, columns) ==
    [constructed |-> TRUE, data |-> input, risk_free_rate |-> risk_free_rate,
     iterations |-> iterations, returns |-> columns, columns |-> cols,
     n_rows |-> Len(dates), n_assets |-> Len(cols),
     mean_returns |-> SeqMap(LAMBDA k : SkipNaMean(columns[k]), Len(cols)),
     cov_matrix |-> cov_matrix(columns)]

\* __init__ after np.random.seed: the object, given that "Return" is a column
PortfolioOptimizer_init(input, risk_free_rate, iterations) ==
    MakeOptimizer(input, risk_free_rate, iterations, PivotDates(input), PivotCols(input),
                  PivotColumns(input, PivotDates(input), PivotCols(input)))

\* weights_matrix / np.sum(weights_matrix, axis=1, keepdims=True)
NormalizeDraws(row, total) == SeqMap(LAMBDA k : FDiv(row[k], total), Len(row))

NormalizeRows(m) == SeqMap(LAMBDA i : NormalizeDraws(m[i], FSumSeq(m[i])), Len(m))

generate_random_weights_matrix(self, s) ==
    NormalizeRows(np_random_rand(s, self.iterations, self.n_assets))

\* np.dot of two vectors
Dot(x, y) == FSumSeq(SeqMap(LAMBDA k : FMul(x[k], y[k]), Len(x)))

\* np.sqrt(np.dot(w.T, np.dot(self.cov_matrix, w)))
port_volatility(self, w) ==
    FSqrt(Dot(w, SeqMap(LAMBDA j : Dot(self.cov_matrix[j], w), Len(w))))

\* np.dot(weights_matrix, self.mean_returns) * 252, one row
arithmetic_return(self, w) == FMul(Dot(w, self.mean_returns), Int2F(TradingDays))

MetricsRow(w, ret, vol, risk_free_rate) ==
    [Return |-> ret, Volatility |-> vol, Sharpe |-> FDiv(FSub(ret, risk_free_rate), vol),
     Weights |-> w]

\* the rows of _calculate_portfolio_metrics(weights_matrix, "arithmetic"), each with
\* the weights it was computed from
arithmetic_metrics(self, weights_matrix) ==
    SeqMap(LAMBDA i : MetricsRow(weights_matrix[i],
                                 arithmetic_return(self, weights_matrix[i]),
                                 port_volatility(self, weights_matrix[i]),
                                 self.risk_free_rate),
           Len(weights_matrix))

ReturnMethods == {"arithmetic", "geometric"}

\* What a call on an optimizer ends in.  `arg` is the option name it was called
\* with, `cloud` the returned table of portfolio records, `picks` the selected
\* records, `matrix` a returned weights matrix; `first` and `undisturbed` record
\* how the call was placed: it was the first sampling call on its object, and
\* nothing touched the generator between the object's construction and the call.
\* `args` are the other arguments of the call, `solves` what the solver answered
\* on each target of a frontier call, `line` the two lists calculate_cml returns.
PORaise(op, kind, msg, lists) ==
    [op |-> op, arg |-> "", kind |-> kind, msg |-> msg, lists |-> lists,
     cloud |-> <<>>, picks |-> <<>>, matrix |-> <<>>,
     first |-> FALSE, undisturbed |-> FALSE,
     args |-> <<>>, solves |-> <<>>, line |-> <<>>]

POReturn(op, cloud, picks) ==
    [op |-> op, arg |-> "", kind |-> "ok", msg |-> "", lists |-> {},
     cloud |-> cloud, picks |-> picks, matrix |-> <<>>,
     first |-> FALSE, undisturbed |-> FALSE,
     args |-> <<>>, solves |-> <<>>, line |-> <<>>]

\* _calculate_portfolio_metrics.  The geometric branch multiplies the weights by
\* the returns table itself, which numpy accepts only when the table has as many
\* rows as columns; its compounded value (a 252nd power) is not evaluated here.
calculate_portfolio_metrics(self, weights_matrix, return_method) ==
    IF return_method = "arithmetic"
    THEN POReturn("_calculate_portfolio_metrics",
                  arithmetic_metrics(self, weights_matrix), <<>>)
    ELSE IF return_method = "geometric"
    THEN (IF self.n_rows # self.n_assets
          THEN PORaise("_calculate_portfolio_metrics", "ValueError",
                       "shapes not aligned", {})
          ELSE [POReturn("_calculate_portfolio_metrics", <<>>, <<>>)
                    EXCEPT !.msg = "geometric: values not evaluated"])
    ELSE \* port_returns was never assigned when line 63 reads it
         PORaise("_calculate_portfolio_metrics", "UnboundLocalError",
                 "port_returns",
                 {})

\* the positions of the non-NaN entries of a column
Defined(col) == {i \in 1..Len(col) : ~IsNaN(col[i])}

\* Series.idxmax(): the first position of the largest non-NaN entry (0: none)
idxmax(col) ==
    IF Defined(col) = {} THEN 0
    ELSE CHOOSE i \in Defined(col) :
           /\ \A j \in Defined(col) : FLe(col[j], col[i])
           /\ \A j \in Defined(col) : j < i => FLt(col[j], col[i])

\* Series.idxmin(): the first position of the smallest non-NaN entry (0: none)
idxmin(col) ==
    IF Defined(col) = {} THEN 0
    ELSE CHOOSE i \in Defined(col) :
           /\ \A j \in Defined(col) : FLe(col[i], col[j])
           /\ \A j \in Defined(col) : j < i => FLt(col[i], col[j])

\* lines 106-110: the two selected rows, or the error of a selection that finds no
\* defined entry (an empty or all-NaN column)
SelectPortfolios(cloud, imax, imin) ==
    IF imax = 0 \/ imin = 0
    THEN PORaise("monte_carlo_optimization", "SelectionError",
                 "no defined entry to select", {})
    ELSE POReturn("monte_carlo_optimization", cloud, <<cloud[imax], cloud[imin]>>)

MonteCarloOf(cloud) ==
    SelectPortfolios(cloud, idxmax(SeqMap(LAMBDA i : cloud[i].Sharpe, Len(cloud))),
                     idxmin(SeqMap(LAMBDA i : cloud[i].Volatility, Len(cloud))))

\* monte_carlo_optimization with the generator in state s
monte_carlo_optimization(self, s) ==
    MonteCarloOf(arithmetic_metrics(self, generate_random_weights_matrix(self, s)))

\* Series.min() / Series.max(): NaN entries are skipped, NaN when none is left
SeriesMin(col) == IF Defined(col) = {} THEN NaN ELSE col[idxmin(col)]

SeriesMax(col) == IF Defined(col) = {} THEN NaN ELSE col[idxmax(col)]

\* np.linspace(lo, hi, n): n evenly spaced values from lo to hi
linspace(lo, hi, n) ==
    SeqMap(LAMBDA i : IF n = 1 THEN lo
                      ELSE FAdd(lo, FMul(Frac(i - 1, n - 1), FSub(hi, lo))),
           n)

\* the initial guess of the frontier solver: equal weights
EqualWeights(n) == SeqMap(LAMBDA k : Frac(1, n), n)

\* all weight on the first asset
UnitWeights(n) == SeqMap(LAMBDA k : IF k = 1 THEN One ELSE Zero, n)

\* scipy's minimize(..., method="SLSQP") is a library outside the repository.  A
\* solve either converges at some weights x or does not; which, and where, is the
\* solver's choice.
SolverOutcomes(self) ==
    {[success |-> FALSE, x |-> EqualWeights(self.n_assets)]}
        \cup {[success |-> TRUE, x |-> w] :
                 w \in {EqualWeights(self.n_assets), UnitWeights(self.n_assets)}}

\* _minimize_volatility_obj(weights): the volatility of the one-row metrics
minimize_volatility_obj(self, weights) == port_volatility(self, weights)

\* the result of one minimize call: result.success and result.fun, the objective at
\* the point the solver stopped at
minimize(self, target, outcome) ==
    [target |-> target, success |-> outcome.success,
     fun |-> minimize_volatility_obj(self, outcome.x)]

\* mutant: the loop ends at the first solve that does not converge
RECURSIVE efficient_portfolios_until_failure(_)
efficient_portfolios_until_failure(solves) ==
    IF solves = <<>> \/ ~Head(solves).success THEN <<>>
    ELSE <<[Return |-> Head(solves).target, Volatility |-> Head(solves).fun]>>
             \o efficient_portfolios_until_failure(Tail(solves))

\* lines 128-155: the list the loop appends to, one entry per converged solve
RECURSIVE efficient_portfolios(_)
efficient_portfolios(solves) ==
    IF solves = <<>> THEN <<>>
    ELSE (IF Head(solves).success
          THEN <<[Return |-> Head(solves).target, Volatility |-> Head(solves).fun]>>
          ELSE <<>>)
             \o efficient_portfolios(Tail(solves))

FrontierOf(n_points, solves) ==
    [POReturn("calculate_efficient_frontier", efficient_portfolios(solves), <<>>)
        EXCEPT !.args = <<n_points>>, !.solves = solves]

\* calculate_efficient_frontier(results_df, n_points), the solver answering
\* outcomes[i] on the i-th target.  Without assets the initial guess of the first
\* iteration divides by zero (line 142).
calculate_efficient_frontier(self, results_df, n_points, outcomes) ==
    IF n_points > 0 /\ self.n_assets = 0
    THEN [PORaise("calculate_efficient_frontier", "ZeroDivisionError",
                  "float division by zero", {}) EXCEPT !.args = <<n_points>>]
    ELSE FrontierOf(n_points,
             SeqMap(LAMBDA i :
                        minimize(self,
                                 linspace(SeriesMin(SeqMap(LAMBDA j : results_df[j].Return,
                                                           Len(results_df))),
                                          SeriesMax(SeqMap(LAMBDA j : results_df[j].Return,
                                                           Len(results_df))),
                                          n_points)[i],
                                 outcomes[i]),
                    n_points))

\* mutant: the right end is not padded
cml_x_unpadded(results_df, x_axis_padding) ==
    <<Zero, SeriesMax(SeqMap(LAMBDA j : results_df[j].Volatility, Len(results_df)))>>

\* line 183: [0, results_df["Volatility"].max() * x_axis_padding]
cml_x(results_df, x_axis_padding) ==
    <<Zero, FMul(SeriesMax(SeqMap(LAMBDA j : results_df[j].Volatility, Len(results_df))),
                 x_axis_padding)>>

\* line 181: the slope, the Sharpe ratio of the given portfolio
cml_slope(self, max_sharpe_portfolio) ==
    FDiv(FSub(max_sharpe_portfolio.Return, self.risk_free_rate),
         max_sharpe_portfolio.Volatility)

\* line 185: [risk_free_rate, risk_free_rate + cml_slope * cml_x[1]]
cml_y(self, slope, x) ==
    <<self.risk_free_rate, FAdd(self.risk_free_rate, FMul(slope, x[2]))>>

\* calculate_cml(max_sharpe_portfolio, results_df, x_axis_padding): numpy floats
\* divide by zero without raising
calculate_cml(self, max_sharpe_portfolio, results_df, x_axis_padding) ==
    [POReturn("calculate_cml", <<>>, <<>>)
        EXCEPT !.args = <<max_sharpe_portfolio, results_df, x_axis_padding>>,
               !.line = <<cml_x(results_df, x_axis_padding),
                          cml_y(self, cml_slope(self, max_sharpe_portfolio),
                                cml_x(results_df, x_axis_padding))>>]

\* ------------------------------------------------------------------ YFinanceLoader
\* YFinanceLoader(max_retries, delay)
YFinanceLoader_init(max_retries, delay) == [max_retries |-> max_retries, delay |-> delay]

\* the activation of get_daily_ohlcv: where it stands (pc), the ticker list, the
\* position i in it, the attempt number, the frames collected so far, the calls it
\* has made to yf.download and time.sleep (io), and what it ended in
NoFetch ==
    [pc |-> "idle", tickers |-> <<>>, i |-> 0, attempt |-> 0, all_data |-> <<>>,
     io |-> <<>>, result |-> [kind |-> "none", error |-> "", df_final |-> <<>>]]

\* lines 28-29: a single ticker given as a string becomes a list of one
as_list(tickers) ==
    IF tickers.type = "str" THEN <<tickers.value>> ELSE tickers.value

\* the head of the loops of lines 32-33 for the ticker at position i: a loader
\* with max_retries < 1 makes no attempt for any ticker
RECURSIVE for_ticker(_, _, _)
for_ticker(self, f, i) ==
    IF i > Len(f.tickers) THEN [f EXCEPT !.pc = "concat", !.i = i]
    ELSE IF self.max_retries < 1 THEN for_ticker(self, f, i + 1)
    ELSE [f EXCEPT !.pc = "download", !.i = i, !.attempt = 0]

\* lines 28-32
get_daily_ohlcv(self, tickers) ==
    for_ticker(self, [NoFetch EXCEPT !.tickers = as_list(tickers)], 1)

\* a call of yf.download (line 35) and whether the try body it opens went through;
\* a call of time.sleep (line 46) and its argument
Download(f, ok) ==
    [op |-> "download", i |-> f.i, attempt |-> f.attempt, ok |-> ok, seconds |-> Zero]

Sleep(self, f) ==
    [op |-> "sleep", i |-> f.i, attempt |-> f.attempt, ok |-> FALSE,
     seconds |-> self.delay]

\* lines 36-38: the downloaded frame, with its Symbol column
Frame(ticker, rows) == [Symbol |-> ticker, rows |-> rows]

\* mutant: the loop of line 33 goes on after a success
after_success_no_break(self, f) ==
    IF f.attempt < self.max_retries - 1 THEN [f EXCEPT !.attempt = @ + 1]
    ELSE for_ticker(self, f, f.i + 1)

\* lines 51-52: else: break
after_success(self, f) == for_ticker(self, f, f.i + 1)

\* lines 35-39: the try body went through
try_succeeds(self, f, rows) ==
    after_success(self, [f EXCEPT !.all_data = Append(@, Frame(f.tickers[f.i], rows)),
                                  !.io = Append(@, Download(f, TRUE))])

\* lines 41-50: the try body raised an Exception
try_raises(self, f) ==
    LET g == [f EXCEPT !.io = Append(@, Download(f, FALSE))]
    IN  IF f.attempt < self.max_retries - 1 THEN [g EXCEPT !.pc = "sleep"]
        ELSE for_ticker(self, g, f.i + 1)

\* line 46, and the next turn of the loop of line 33
time_sleep(self, f) ==
    [f EXCEPT !.io = Append(@, Sleep(self, f)), !.attempt = @ + 1, !.pc = "download"]

\* the rows of pd.concat(all_data, axis=0): the Symbol of every row, frame by frame
RECURSIVE pd_concat(_)
pd_concat(all_data) ==
    IF all_data = <<>> THEN <<>>
    ELSE [k \in 1..Head(all_data).rows |-> Head(all_data).Symbol] \o pd_concat(Tail(all_data))

\* lines 53-56: pd.concat raises ValueError on an empty list
concat_and_return(f) ==
    IF f.all_data = <<>>
    THEN [f EXCEPT !.pc = "done",
                   !.result = [kind |-> "raise", error |-> "ValueError", df_final |-> <<>>]]
    ELSE [f EXCEPT !.pc = "done",
                   !.result = [kind |-> "ok", error |-> "",
                               df_final |-> pd_concat(f.all_data)]]

\* ------------------------------------------------------------------ state
VARIABLES
    loader,         \* the YFinanceLoader object
    fetch,          \* its running or finished call of get_daily_ohlcv
    input_data,     \* the caller's table, handed to IndexBuilder / PortfolioOptimizer
    input_shares,   \* the caller's Shares-Outstanding Table (NoShares: none is passed)
    ib,             \* the IndexBuilder object
    call,           \* the last call made on it: its name and arguments
    out,            \* what that call ended in
    rng,            \* the state of numpy's process-wide generator
    po,             \* the PortfolioOptimizer objects, by the name they are bound to
    seeds,          \* the seed each optimizer was constructed with
    res,            \* what the last call on each optimizer ended in
    rngOwner,       \* history: the optimizer whose construction last set the
                    \* generator, "none" once anything has drawn from it since
    sampled         \* history: the optimizers that have sampled

ibVars == <<input_data, input_shares, ib, call, out>>

poVars == <<rng, po, seeds, res, rngOwner, sampled>>

ylVars == <<loader, fetch>>

vars == <<input_data, input_shares, ib, call, out, rng, po, seeds, res, rngOwner, sampled,
          loader, fetch>>

Optimizers == {"p", "q"}

NoBuilder ==
    [constructed |-> FALSE, data |-> RawTable([s \in Symbols |-> [d \in Dates |-> 0]]),
     has_shares |-> FALSE, shares_outstanding_data |-> NoShares]

NoCall == [op |-> "none", type |-> "", base_value |-> Zero, rolling_window |-> 0]

NoOut == Raise("none", "", {}, "none")

\* unprocessed tables need no variety of prices: no builder gets past its check
\* of the columns
RawCodes == {t \in Codes : \A s \in Symbols, d \in Dates : t[s][d] # 2}

InputTables ==
    {RawTable(t) : t \in RawCodes}
        \cup {process_data(RawTable(t)) : t \in Codes}
        \cup {ReturnTable(t) : t \in Codes}

BaseValues == {One, Int2F(2)}

Windows == 1..MaxWindow

TypeNames == IndexTypes \cup {"momentum"}

NoResult == PORaise("none", "none", "", {})

IdleIB ==
    /\ input_shares = NoShares
    /\ ib = NoBuilder
    /\ call = NoCall
    /\ out = NoOut

IdleYL ==
    /\ loader = YFinanceLoader_init(3, One)
    /\ fetch = NoFetch

IdlePO ==
    /\ rng = 0
    /\ po = [o \in Optimizers |-> NoOptimizer]
    /\ seeds = [o \in Optimizers |-> 0]
    /\ res = [o \in Optimizers |-> NoResult]
    /\ rngOwner = "none"
    /\ sampled = {}

InitIB ==
    /\ input_data \in InputTables
    /\ input_shares \in SharesTables \cup {NoShares}
    /\ ib = NoBuilder
    /\ call = NoCall
    /\ out = NoOut
    /\ IdlePO
    /\ IdleYL

Construct ==
    /\ ~ib.constructed
    /\ ib' = IndexBuilder_init(input_data, input_shares)
    /\ UNCHANGED <<input_data, input_shares, call, out, poVars, ylVars>>

CallEqual ==
    /\ ib.constructed
    /\ \E b \in BaseValues :
         /\ call' = [op |-> "build_equal_weighted_index", type |-> "",
                     base_value |-> b, rolling_window |-> 0]
         /\ out' = build_equal_weighted_index(ib, b)
    /\ UNCHANGED <<input_data, input_shares, ib, poVars, ylVars>>

CallPrice ==
    /\ ib.constructed
    /\ call' = [op |-> "build_price_weighted_index", type |-> "",
                base_value |-> Zero, rolling_window |-> 0]
    /\ out' = build_price_weighted_index(ib)
    /\ UNCHANGED <<input_data, input_shares, ib, poVars, ylVars>>

CallValue ==
    /\ ib.constructed
    /\ \E b \in BaseValues :
         /\ call' = [op |-> "build_value_weighted_index", type |-> "",
                     base_value |-> b, rolling_window |-> 0]
         /\ out' = build_value_weighted_index(ib, b)
    /\ ib' = self_after_value_build(ib)
    /\ UNCHANGED <<input_data, input_shares, poVars, ylVars>>

CallRiskParity ==
    /\ ib.constructed
    /\ \E b \in BaseValues, w \in Windows :
         /\ call' = [op |-> "build_risk_parity_index", type |-> "",
                     base_value |-> b, rolling_window |-> w]
         /\ out' = build_risk_parity_index(ib, b, w)
    /\ UNCHANGED <<input_data, input_shares, ib, poVars, ylVars>>

CallBuildIndex ==
    /\ ib.constructed
    /\ \E ty \in TypeNames, b \in BaseValues :
         /\ call' = [op |-> "build_index", type |-> ty,
                     base_value |-> b, rolling_window |-> MaxWindow]
         /\ out' = build_index(ib, ty, b, MaxWindow)
         /\ ib' = IF ty = "value" THEN self_after_value_build(ib) ELSE ib
    /\ UNCHANGED <<input_data, input_shares, poVars, ylVars>>

NextIB ==
    \/ Construct
    \/ CallEqual
    \/ CallPrice
    \/ CallValue
    \/ CallRiskParity
    \/ CallBuildIndex

SpecIB == InitIB /\ [][NextIB]_vars

\* ------------------------------------------------------------------ optimizer runs
\* the tables an optimizer is constructed from: each asset has no row at all, or
\* a row at every date: all with code 1 but the last, or all with code 2
OptimizerCodes ==
    {t \in [Symbols -> [Dates -> PriceCodes]] :
        \A s \in Symbols :
            \/ \A d \in Dates : t[s][d] = 0
            \/ \A d \in Dates : IF d < MaxDate THEN t[s][d] = 1 ELSE t[s][d] # 0
            \/ \A d \in Dates : t[s][d] = 2}

FullCodes == {t \in OptimizerCodes : \A s \in Symbols, d \in Dates : t[s][d] # 0}

\* hand-made Return Panels of zero, one or two assets; processed and unprocessed
\* price tables of two
OptimizerTables ==
    {ReturnTable(t) : t \in OptimizerCodes}
        \cup {process_data(RawTable(t)) : t \in FullCodes}
        \cup {RawTable(t) : t \in {u \in FullCodes : \A s \in Symbols : u[s][MaxDate] = 1}}

\* the tables of the runs that compare random streams: one table each of zero,
\* one and two assets
StreamTables ==
    {ReturnTable(t) : t \in {u \in OptimizerCodes :
        /\ \A s \in Symbols : u[s][MaxDate] \in {0, 2}
        /\ u["B"][MaxDate] # 0 => u["A"][MaxDate] # 0}}

\* the tables of the frontier runs: no asset, either of two different assets, or
\* both
FrontierTables ==
    {ReturnTable(t) : t \in {u \in OptimizerCodes :
        /\ u["A"][MaxDate] \in {0, 1}
        /\ u["B"][MaxDate] \in {0, 2}}}

Seeds == 0..MaxSeed

IterationCounts == 1..MaxIterations

\* the yield the repository configures (risk_free_rate = 0.04)
RiskFreeRate == Frac(1, 25)

\* the risk_free_rate arguments: the default, and no yield
RiskFreeRates == {RiskFreeRate, Zero}

\* the x_axis_padding arguments: the default 1.1, and 2
XAxisPaddings == {Frac(11, 10), Int2F(2)}

MethodNames == ReturnMethods \cup {"harmonic"}

\* the exception class of a selection without a defined entry differs between
\* pandas versions
SelectionErrors == {"ValueError", "KeyError"}

InitOptimizers(tables) ==
    /\ input_data \in tables
    /\ IdleIB
    /\ rng \in 0..(RngMod - 1)
    /\ po = [o \in Optimizers |-> NoOptimizer]
    /\ seeds = [o \in Optimizers |-> 0]
    /\ res = [o \in Optimizers |-> NoResult]
    /\ rngOwner = "none"
    /\ sampled = {}
    /\ IdleYL

\* PortfolioOptimizer(input_data, risk_free_rate=rate, iterations=n, seed=seed),
\* bound to the name o.  The generator is seeded (line 17) before the table is
\* pivoted (line 20).
ConstructOptimizer(o, counts, rates) ==
    /\ ~po[o].constructed
    /\ res[o] = NoResult
    /\ \E seed \in Seeds, n \in counts, rate \in rates :
         /\ rng' = np_random_seed(rng, seed)
         /\ IF "Return" \in input_data.cols
            THEN /\ po' = [po EXCEPT ![o] = PortfolioOptimizer_init(input_data, rate, n)]
                 /\ seeds' = [seeds EXCEPT ![o] = seed]
                 /\ rngOwner' = o
                 /\ res' = res
            ELSE /\ res' = [res EXCEPT ![o] = PORaise("__init__", "KeyError", "Return", {})]
                 /\ rngOwner' = "none"
                 /\ UNCHANGED <<po, seeds>>
    /\ UNCHANGED <<ylVars, ibVars, sampled>>

\* o.monte_carlo_optimization()
Returned(o, r) ==
    \E kind \in (IF r.kind = "SelectionError" THEN SelectionErrors ELSE {r.kind}) :
        res' = [res EXCEPT ![o] = [r EXCEPT !.kind = kind,
                                            !.first = o \notin sampled,
                                            !.undisturbed = (rngOwner = o)]]

MonteCarlo(o) ==
    /\ po[o].constructed
    /\ Returned(o, monte_carlo_optimization(po[o], rng))
    /\ rng' = RngAfter(rng, po[o].iterations * po[o].n_assets)
    /\ rngOwner' = IF po[o].iterations * po[o].n_assets = 0 THEN rngOwner ELSE "none"
    /\ sampled' = sampled \cup {o}
    /\ UNCHANGED <<ylVars, ibVars, po, seeds>>

\* o._calculate_portfolio_metrics(<one row of equal weights>, return_method)
CalculateMetrics(o) ==
    /\ po[o].constructed
    /\ \E m \in MethodNames :
         res' = [res EXCEPT ![o] =
                   [calculate_portfolio_metrics(po[o], <<EqualWeights(po[o].n_assets)>>, m)
                      EXCEPT !.arg = m]]
    /\ UNCHANGED <<ylVars, ibVars, rng, po, seeds, rngOwner, sampled>>

\* o._generate_random_weights_matrix()
GenerateWeights(o) ==
    /\ po[o].constructed
    /\ res' = [res EXCEPT ![o] =
                 [POReturn("_generate_random_weights_matrix", <<>>, <<>>)
                    EXCEPT !.matrix = generate_random_weights_matrix(po[o], rng),
                           !.first = o \notin sampled,
                           !.undisturbed = (rngOwner = o)]]
    /\ rng' = RngAfter(rng, po[o].iterations * po[o].n_assets)
    /\ rngOwner' = IF po[o].iterations * po[o].n_assets = 0 THEN rngOwner ELSE "none"
    /\ sampled' = sampled \cup {o}
    /\ UNCHANGED <<ylVars, ibVars, po, seeds>>

\* o.calculate_efficient_frontier(results_df, n_points), on the cloud the last
\* monte_carlo_optimization returned
Frontier(o) ==
    /\ po[o].constructed
    /\ res[o].op = "monte_carlo_optimization"
    /\ res[o].kind = "ok"
    /\ \E n_points \in 0..MaxPoints :
         \E outcomes \in [1..n_points -> SolverOutcomes(po[o])] :
            res' = [res EXCEPT ![o] =
                      calculate_efficient_frontier(po[o], res[o].cloud, n_points, outcomes)]
    /\ UNCHANGED <<ylVars, ibVars, rng, po, seeds, rngOwner, sampled>>

\* o.calculate_cml(portfolio, results_df, x_axis_padding), on the cloud and one of
\* the two records the last monte_carlo_optimization returned
CML(o) ==
    /\ po[o].constructed
    /\ res[o].op = "monte_carlo_optimization"
    /\ res[o].kind = "ok"
    /\ \E k \in 1..2, x_axis_padding \in XAxisPaddings :
         res' = [res EXCEPT ![o] =
                   calculate_cml(po[o], res[o].picks[k], res[o].cloud, x_axis_padding)]
    /\ UNCHANGED <<ylVars, ibVars, rng, po, seeds, rngOwner, sampled>>

\* one optimizer, every method
InitPO == InitOptimizers(OptimizerTables)

NextPO ==
    \/ ConstructOptimizer("p", IterationCounts, RiskFreeRates)
    \/ MonteCarlo("p")
    \/ GenerateWeights("p")
    \/ CalculateMetrics("p")
    \/ CML("p")

SpecPO == InitPO /\ [][NextPO]_vars

\* two optimizers in one process, constructed and sampled in any order
InitStreams == InitOptimizers(StreamTables)

NextStreams ==
    \E o \in Optimizers :
        \/ ConstructOptimizer(o, {MaxIterations}, {RiskFreeRate})
        \/ MonteCarlo(o)

SpecStreams == InitStreams /\ [][NextStreams]_vars

\* one optimizer: sampling, then the frontier of the sampled cloud
InitFrontier == InitOptimizers(FrontierTables)

NextFrontier ==
    \/ ConstructOptimizer("p", {MaxIterations}, {RiskFreeRate})
    \/ MonteCarlo("p")
    \/ Frontier("p")

SpecFrontier == InitFrontier /\ [][NextFrontier]_vars

\* ------------------------------------------------------------------ both components
\* an IndexBuilder and a PortfolioOptimizer constructed from the same processed
\* table of two assets; builder calls and samplings in any order
FrameTables ==
    {process_data(RawTable(t)) : t \in {u \in FullCodes :
        u["A"][MaxDate] = 1 /\ u["B"][MaxDate] = 2}}

InitFrame ==
    /\ input_data \in FrameTables
    /\ input_shares \in SharesTables \cup {NoShares}
    /\ ib = NoBuilder
    /\ call = NoCall
    /\ out = NoOut
    /\ IdlePO
    /\ IdleYL

NextFrame ==
    \/ NextIB
    \/ ConstructOptimizer("p", {1}, {RiskFreeRate})
    \/ MonteCarlo("p")

SpecFrame == InitFrame /\ [][NextFrame]_vars

\* ------------------------------------------------------------------ loader runs
\* the tickers argument: one symbol as a string, or a list of up to two symbols
TickerArgs ==
    {[type |-> "str", value |-> s] : s \in Symbols}
        \cup {[type |-> "list", value |-> l] :
                 l \in {<<>>} \cup {<<s>> : s \in Symbols}
                         \cup {<<s, u>> : s \in Symbols, u \in Symbols}}

Delays == {Zero, One}

\* the number of rows of a downloaded frame
FrameRows == {0, 1}

InitYL ==
    /\ input_data = NoBuilder.data
    /\ IdleIB
    /\ IdlePO
    /\ loader \in {YFinanceLoader_init(m, d) : m \in 0..MaxRetries, d \in Delays}
    /\ fetch = NoFetch

\* loader.get_daily_ohlcv(tickers), up to the first download
CallGetDailyOhlcv ==
    /\ fetch.pc \in {"idle", "done"}
    /\ \E tickers \in TickerArgs : fetch' = get_daily_ohlcv(loader, tickers)
    /\ UNCHANGED <<ibVars, poVars, loader>>

\* yf.download returns a frame and lines 36-39 go through
DownloadSucceeds ==
    /\ fetch.pc = "download"
    /\ \E rows \in FrameRows : fetch' = try_succeeds(loader, fetch, rows)
    /\ UNCHANGED <<ibVars, poVars, loader>>

\* yf.download, or one of lines 36-38, raises
DownloadRaises ==
    /\ fetch.pc = "download"
    /\ fetch' = try_raises(loader, fetch)
    /\ UNCHANGED <<ibVars, poVars, loader>>

\* time.sleep(self.delay) returns
SleepReturns ==
    /\ fetch.pc = "sleep"
    /\ fetch' = time_sleep(loader, fetch)
    /\ UNCHANGED <<ibVars, poVars, loader>>

\* lines 53-56
ConcatAndReturn ==
    /\ fetch.pc = "concat"
    /\ fetch' = concat_and_return(fetch)
    /\ UNCHANGED <<ibVars, poVars, loader>>

NextYL ==
    \/ CallGetDailyOhlcv
    \/ DownloadSucceeds
    \/ DownloadRaises
    \/ SleepReturns
    \/ ConcatAndReturn

SpecYL == InitYL /\ [][NextYL]_vars

\* ------------------------------------------------------------------ optimizer claims
\* C4: _calculate_portfolio_metrics called with a return method other than
\* "arithmetic" and "geometric" ends in an unknown-option error (a ValueError)
\* that lists the two valid options, and returns no metrics.
C4_UnknownMethodIsUnknownOption ==
    \A o \in Optimizers :
        (res[o].op = "_calculate_portfolio_metrics"
            /\ res[o].arg \notin {"arithmetic", "geometric"})
        => /\ res[o].kind = "ValueError"
           /\ res[o].lists = {"arithmetic", "geometric"}
           /\ res[o].cloud = <<>>

IsMonteCarlo(r) == r.op = "monte_carlo_optimization"

\* C6: two optimizers constructed from the same table with the same iteration
\* count and the same seed, each sampled once right after its construction,
\* return the same cloud and the same selected records.
C6_SameSeedSameCloud ==
    \A o1, o2 \in Optimizers :
        (/\ IsMonteCarlo(res[o1]) /\ res[o1].undisturbed
         /\ IsMonteCarlo(res[o2]) /\ res[o2].undisturbed
         /\ seeds[o1] = seeds[o2]
         /\ po[o1].iterations = po[o2].iterations)
        => /\ res[o1].cloud = res[o2].cloud
           /\ res[o1].picks = res[o2].picks

C6_Witness ==
    /\ IsMonteCarlo(res["p"]) /\ res["p"].undisturbed
    /\ IsMonteCarlo(res["q"]) /\ res["q"].undisturbed
    /\ seeds["p"] = seeds["q"]
    /\ po["p"].n_assets = 2
    /\ Len(res["p"].cloud) = MaxIterations
    /\ res["p"].cloud = res["q"].cloud

\* C7: a further monte_carlo_optimization call on the same optimizer returns the
\* cloud the call before it returned.
C7_RepeatedCallSameCloud ==
    [][\A o \in Optimizers :
          (IsMonteCarlo(res[o]) /\ IsMonteCarlo(res'[o]))
              => res'[o].cloud = res[o].cloud]_vars

\* C8: the cloud of an optimizer's first call is the one the optimizer returns
\* when nothing else uses the generator, whatever another optimizer did between
\* its construction and the call.
C8_CloudIndependentOfOthers ==
    \A o \in Optimizers :
        (IsMonteCarlo(res[o]) /\ res[o].first)
            => res[o].cloud =
                 monte_carlo_optimization(po[o], np_random_seed(0, seeds[o])).cloud

\* C9: every row of a sampled weights matrix (one asset or more) has only finite
\* entries >= 0 and sums to 1.
C9_RowsAreWeights ==
    \A o \in Optimizers :
        (res[o].op = "_generate_random_weights_matrix" /\ po[o].n_assets >= 1)
            => \A i \in 1..Len(res[o].matrix) :
                 /\ \A k \in 1..Len(res[o].matrix[i]) :
                      IsFinite(res[o].matrix[i][k]) /\ FLe(Zero, res[o].matrix[i][k])
                 /\ FSumSeq(res[o].matrix[i]) = One

IsFrontier(r) == r.op = "calculate_efficient_frontier"

\* C11: a frontier call on an optimizer with assets solves every one of its
\* n_points targets, in non-decreasing target order, whether or not the solves
\* before converged; the returned rows are exactly the converged solves, in that
\* order, each with its target and the solver's volatility, so at most n_points.
C11_FrontierIsConvergedTargets ==
    \A o \in Optimizers :
        (IsFrontier(res[o]) /\ po[o].n_assets >= 1)
        => /\ res[o].kind = "ok"
           /\ Len(res[o].solves) = res[o].args[1]
           /\ \A i \in 1..(Len(res[o].solves) - 1) :
                 FLe(res[o].solves[i].target, res[o].solves[i + 1].target)
           /\ Len(res[o].cloud) = Len(SelectSeq(res[o].solves, LAMBDA s : s.success))
           /\ Len(res[o].cloud) <= res[o].args[1]
           /\ \A k \in 1..Len(res[o].cloud) :
                 /\ res[o].cloud[k].Return =
                      SelectSeq(res[o].solves, LAMBDA s : s.success)[k].target
                 /\ res[o].cloud[k].Volatility =
                      SelectSeq(res[o].solves, LAMBDA s : s.success)[k].fun

\* a frontier of two targets whose first solve failed and whose second converged
C11_Witness ==
    /\ IsFrontier(res["p"])
    /\ po["p"].n_assets = 2
    /\ Len(res["p"].solves) = 2
    /\ ~res["p"].solves[1].success
    /\ res["p"].solves[2].success
    /\ FLt(res["p"].solves[1].target, res["p"].solves[2].target)
    /\ Len(res["p"].cloud) = 1
    /\ res["p"].cloud[1].Return = res["p"].solves[2].target

\* C12: construction from a table without return data (no row with a return, or no
\* Return column) fails; no constructed optimizer has zero assets.
C12_NoOptimizerWithoutAssets ==
    \A o \in Optimizers : po[o].constructed => po[o].n_assets >= 1

\* the cloud a monte_carlo_optimization call on o computes in the present state
SampledCloud(o) == arithmetic_metrics(po[o], generate_random_weights_matrix(po[o], rng))

\* C13: a monte_carlo_optimization call whose sampled portfolios all have a
\* volatility of exactly zero returns, with an undefined (NaN or infinite) Sharpe
\* ratio in every row; a metrics row of zero volatility has such a Sharpe ratio;
\* and calculate_cml returns.
C13_ZeroVolatilityNoError ==
    [][\A o \in Optimizers :
          /\ (/\ po[o].constructed /\ po[o].n_assets >= 1
              /\ IsMonteCarlo(res'[o])
              /\ \A i \in 1..Len(SampledCloud(o)) : SampledCloud(o)[i].Volatility = Zero)
             => /\ res'[o].kind = "ok"
                /\ \A i \in 1..Len(res'[o].cloud) :
                      IsNaN(res'[o].cloud[i].Sharpe) \/ IsInf(res'[o].cloud[i].Sharpe)
          /\ (res'[o].op = "_calculate_portfolio_metrics" /\ res'[o].kind = "ok")
             => \A i \in 1..Len(res'[o].cloud) :
                   res'[o].cloud[i].Volatility = Zero
                      => IsNaN(res'[o].cloud[i].Sharpe) \/ IsInf(res'[o].cloud[i].Sharpe)
          /\ res'[o].op = "calculate_cml" => res'[o].kind = "ok"]_vars

IsCML(r) == r.op = "calculate_cml"

C15_CloudAndSelectedRecords ==
    \A o \in Optimizers :
        IsMonteCarlo(res[o])
        => /\ res[o].kind = "ok"
           /\ Len(res[o].cloud) = po[o].iterations
           /\ \A i \in 1..Len(res[o].cloud) :
                 /\ Len(res[o].cloud[i].Weights) = po[o].n_assets
                 /\ res[o].cloud[i] =
                      MetricsRow(res[o].cloud[i].Weights,
                                 arithmetic_return(po[o], res[o].cloud[i].Weights),
                                 port_volatility(po[o], res[o].cloud[i].Weights),
                                 po[o].risk_free_rate)
           /\ Len(res[o].picks) = 2
           /\ \E i \in 1..Len(res[o].cloud) : res[o].picks[1] = res[o].cloud[i]
           /\ \E i \in 1..Len(res[o].cloud) : res[o].picks[2] = res[o].cloud[i]
           /\ \A i \in 1..Len(res[o].cloud) :
                 /\ FLe(res[o].cloud[i].Sharpe, res[o].picks[1].Sharpe)
                 /\ FLe(res[o].picks[2].Volatility, res[o].cloud[i].Volatility)

\* ------------------------------------------------------------------ index builder claims
\* the builder the last call was aimed at, directly or through build_index
CalledBuilder ==
    IF call.op = "build_index" THEN call.type
    ELSE IF call.op = "build_equal_weighted_index" THEN "equal"
    ELSE IF call.op = "build_price_weighted_index" THEN "price"
    ELSE IF call.op = "build_value_weighted_index" THEN "value"
    ELSE IF call.op = "build_risk_parity_index" THEN "risk_parity"
    ELSE "none"

\* C1: a value-weighted build (direct or through build_index("value")) on an
\* IndexBuilder constructed without a Shares-Outstanding Table ends in a
\* ValueError that names the missing shares data, and returns no series.
C1_NoSharesIsValueError ==
    (CalledBuilder = "value" /\ ~ib.has_shares)
        => /\ out.kind = "ValueError"
           /\ out.msg = "Shares outstanding data must be provided for value-weighted index."
           /\ out.series = <<>>

\* the columns each builder needs
RequiredColumns(b) ==
    IF b = "equal" THEN {"Return"}
    ELSE IF b = "price" THEN {"Close_normalized"}
    ELSE IF b = "value" THEN {"Return", "Close"}
    ELSE IF b = "risk_parity" THEN {"Return"}
    ELSE {}

\* C2: a call of any of the four builders on a table that lacks a column the
\* builder requires ends in a ValueError, never in another exception and never in
\* a series.  (For the value builder the shares table is passed, so that the
\* outcome is decided by the missing column alone.)
C2_MissingColumnIsValueError ==
    /\ CalledBuilder \in IndexTypes
    /\ CalledBuilder = "value" => ib.has_shares
    /\ ~(RequiredColumns(CalledBuilder) \subseteq ib.data.cols)
    => out.kind = "ValueError"

\* C3: build_index with a name outside the four schemes raises a ValueError whose
\* message lists the four valid names, and no builder body runs; with a valid name
\* it is that name's builder, and no other, that runs.
C3_BuildIndexDispatch ==
    call.op = "build_index"
        => IF call.type \in {"equal", "price", "value", "risk_parity"}
           THEN out.builder = call.type
           ELSE /\ out.kind = "ValueError"
                /\ out.lists = {"equal", "price", "value", "risk_parity"}
                /\ out.builder = "none"
                /\ out.series = <<>>

C3_Witness ==
    /\ call.op = "build_index"
    /\ call.type = "momentum"
    /\ out.kind = "ValueError"
    /\ out.builder = "none"

\* C5: the equal-weighted index value at the first date of the output equals
\* base_value.
C5_FirstValueIsBase ==
    (CalledBuilder = "equal" /\ out.kind = "ok" /\ Len(out.series) > 0)
        => out.series[1][2] = call.base_value

\* the rolling volatility of column k at row i in the last risk-parity call, before
\* any fill: NaN when it is undefined
CalledVolatility(i, k) ==
    rolling_std(ib.data, GroupDates(ib.data), SymbolSeq(ib.data)[k], i,
                call.rolling_window)

ZeroOrUndefined(v) == IsNaN(v) \/ v = Zero

\* C10: in a risk-parity build, at every date every weight is a finite number, an
\* asset whose rolling volatility is zero or undefined has weight 0, and the
\* weights sum to 1, or to 0 exactly when every asset's volatility is zero or
\* undefined at that date.
C10_RiskParityWeights ==
    (CalledBuilder = "risk_parity" /\ out.kind = "ok")
        => \A i \in 1..Len(out.weights) :
             /\ \A k \in 1..Len(out.weights[i]) :
                  /\ IsFinite(out.weights[i][k])
                  /\ ZeroOrUndefined(CalledVolatility(i, k)) => out.weights[i][k] = Zero
             /\ FSumSeq(out.weights[i]) =
                  (IF \A k \in 1..Len(out.weights[i]) : ZeroOrUndefined(CalledVolatility(i, k))
                   THEN Zero ELSE One)

\* a date at which one asset's volatility is zero, so that its weight is 0, and the
\* other carries the whole weight
C10_Witness ==
    /\ CalledBuilder = "risk_parity"
    /\ out.kind = "ok"
    /\ \E i \in 1..Len(out.weights) :
         /\ Len(out.weights[i]) = 2
         /\ \E k \in 1..2 : CalledVolatility(i, k) = Zero /\ out.weights[i][k] = Zero
         /\ \E k \in 1..2 : out.weights[i][k] = One

\* column k of the pivoted returns has no value at row i of the last risk-parity
\* call: the asset has no row at that date, or its Return is NaN
ReturnMissing(i, k) ==
    LET cell == ib.data.cell[SymbolSeq(ib.data)[k]][GroupDates(ib.data)[i]]
    IN  ~cell.present \/ IsNaN(cell.Return)

RECURSIVE SumOfPresent(_, _, _)
SumOfPresent(row, i, k) ==
    IF k = 0 THEN Zero
    ELSE FAdd(SumOfPresent(row, i, k - 1), IF ReturnMissing(i, k) THEN Zero ELSE row[k])

\* C20: in a risk-parity build, an asset whose return is missing at a date has
\* weight 0 at that date, and the weights of the assets that have a return at the
\* date sum to 1, or to 0.
C20_MissingReturnHasZeroWeight ==
    (CalledBuilder = "risk_parity" /\ out.kind = "ok")
        => \A i \in 1..Len(out.weights) :
             /\ \A k \in 1..Len(out.weights[i]) :
                  ReturnMissing(i, k) => out.weights[i][k] = Zero
             /\ SumOfPresent(out.weights[i], i, Len(out.weights[i])) \in {Zero, One}

\* C21: in a risk-parity build with rolling_window >= 1, at the first date every
\* asset's rolling volatility is undefined, every weight is 0, and the index value
\* equals base_value whatever the returns of the first date are.
C21_RiskParityStartsAtBase ==
    (CalledBuilder = "risk_parity" /\ out.kind = "ok" /\ call.rolling_window >= 1
       /\ Len(out.series) > 0)
        => /\ \A k \in 1..Len(out.weights[1]) :
                 /\ IsNaN(CalledVolatility(1, k))
                 /\ out.weights[1][k] = Zero
           /\ out.series[1][1] = GroupDates(ib.data)[1]
           /\ out.series[1][2] = call.base_value

\* a build with base_value 2 on a panel whose two assets both have a non-zero
\* return at the first date
C21_Witness ==
    /\ CalledBuilder = "risk_parity" /\ out.kind = "ok"
    /\ call.base_value = Int2F(2)
    /\ Len(out.series) > 1
    /\ Len(out.weights[1]) = 2
    /\ \A k \in 1..2 : /\ ~ReturnMissing(1, k)
                        /\ ib.data.cell[SymbolSeq(ib.data)[k]][GroupDates(ib.data)[1]].Return # Zero
    /\ out.series[1][2] = Int2F(2)

\* the mean return of the rows of date d in the builder's data
MeanReturnAt(d) == SkipNaMean(ColumnAt(ib.data, "Return", d))

RECURSIVE GrowthProduct(_, _)
GrowthProduct(series, n) ==
    IF n = 0 THEN One
    ELSE FMul(GrowthProduct(series, n - 1), FAdd(One, MeanReturnAt(series[n][1])))

\* C17: in the equal-weighted output, the value at every date after the first is
\* the value at the date before times (1 + mean return of the rows of that date),
\* and the last value is base_value times the product of these growth factors over
\* the dates of the output.
C17_EqualWeightedRecurrence ==
    (CalledBuilder = "equal" /\ out.kind = "ok")
        => /\ \A i \in 2..Len(out.series) :
                 out.series[i][2] =
                    FMul(out.series[i - 1][2], FAdd(One, MeanReturnAt(out.series[i][1])))
           /\ Len(out.series) > 0
                 => out.series[Len(out.series)][2] =
                       FMul(call.base_value, GrowthProduct(out.series, Len(out.series)))

\* close * shares of column k's asset at date d: NaN where it has no row
CapAt(k, d) ==
    IF ib.data.cell[SymbolOrder[k]][d].present
    THEN FMul(ib.data.cell[SymbolOrder[k]][d].Close,
              Int2F(ib.shares_outstanding_data[SymbolOrder[k]]))
    ELSE NaN

\* the sum of close * shares over the assets with a row at d
TotalCapAt(d) == SkipNaSum(SeqMap(LAMBDA k : CapAt(k, d), Len(SymbolOrder)))

\* the sum of weight * return over the assets with a row and a defined return at d
WeightedReturnAt(i, d) ==
    SkipNaSum(SeqMap(LAMBDA k : FMul(out.weights[i][k], ib.data.cell[SymbolOrder[k]][d].Return),
                     Len(SymbolOrder)))

\* C18: in a value-weighted build, at every date whose total market cap is
\* positive, the weight of each asset with a row is its close * shares over the
\* total of the date, lies in [0, 1], and the weights of the date sum to 1; from the
\* second date on, the index is the value before times (1 + the sum of weight *
\* return over the assets of the date that have a return).
C18_ValueWeights ==
    (CalledBuilder = "value" /\ out.kind = "ok")
        => \A i \in 1..Len(out.series) :
             FLt(Zero, TotalCapAt(out.series[i][1]))
             => /\ \A k \in 1..Len(SymbolOrder) :
                      ib.data.cell[SymbolOrder[k]][out.series[i][1]].present
                      => /\ out.weights[i][k] =
                              FDiv(CapAt(k, out.series[i][1]), TotalCapAt(out.series[i][1]))
                         /\ FLe(Zero, out.weights[i][k])
                         /\ FLe(out.weights[i][k], One)
                /\ SkipNaSum(out.weights[i]) = One
                /\ i >= 2
                     => out.series[i][2] =
                           FMul(out.series[i - 1][2],
                                FAdd(One, WeightedReturnAt(i, out.series[i][1])))

\* two assets with different weights at the last date, and an index that moved
C18_Witness ==
    /\ CalledBuilder = "value" /\ out.kind = "ok"
    /\ Len(out.series) = MaxDate
    /\ FLt(Zero, out.weights[MaxDate][1])
    /\ FLt(out.weights[MaxDate][1], out.weights[MaxDate][2])
    /\ out.series[MaxDate][2] # out.series[MaxDate - 1][2]

\* the normalized prices of the rows of date d in the builder's data
NormalizedPricesAt(d) == ColumnAt(ib.data, "Close_normalized", d)

\* the assets that have a row in the builder's data
PanelAssets == {s \in Symbols : \E d \in Dates : ib.data.cell[s][d].present}

AssetsAt(d) == {s \in Symbols : ib.data.cell[s][d].present}

\* C19 as stated: at every date the price-weighted index is the sum of the
\* normalized prices of the date divided by the number of assets, which is the
\* average of the normalized prices of the date; on a DataProcessor panel whose
\* assets all have a row at the first date, the first value is 1.
C19_PriceWeightedIsAverage ==
    (CalledBuilder = "price" /\ out.kind = "ok")
        => /\ \A i \in 1..Len(out.series) :
                 /\ out.series[i][2] =
                      FDiv(SkipNaSum(NormalizedPricesAt(out.series[i][1])),
                           Int2F(Cardinality(PanelAssets)))
                 /\ out.series[i][2] = SkipNaMean(NormalizedPricesAt(out.series[i][1]))
           /\ (Len(out.series) > 0 /\ AssetsAt(out.series[1][1]) = PanelAssets)
                 => out.series[1][2] = One

\* C19, amended: at every date the price-weighted index is the sum of the
\* normalized prices of the date divided by the number of distinct assets of the
\* whole panel; it is the average of the date's normalized prices at the dates
\* where every asset of the panel has a row; on a DataProcessor panel whose assets
\* all have a row at the first date, the first value is 1.
C19_PriceWeightedOverPanelAssets ==
    (CalledBuilder = "price" /\ out.kind = "ok")
        => /\ \A i \in 1..Len(out.series) :
                 /\ out.series[i][2] =
                      FDiv(SkipNaSum(NormalizedPricesAt(out.series[i][1])),
                           Int2F(Cardinality(PanelAssets)))
                 /\ AssetsAt(out.series[i][1]) = PanelAssets
                      => out.series[i][2] = SkipNaMean(NormalizedPricesAt(out.series[i][1]))
           /\ (Len(out.series) > 0 /\ AssetsAt(out.series[1][1]) = PanelAssets)
                 => out.series[1][2] = One

\* a date at which one of the panel's two assets has no row: the index is half the
\* other's normalized price, not the date's average
C19_Witness ==
    /\ CalledBuilder = "price" /\ out.kind = "ok"
    /\ Cardinality(PanelAssets) = 2
    /\ \E i \in 1..Len(out.series) :
         /\ AssetsAt(out.series[i][1]) = {"A"}
         /\ out.series[i][2] = FDiv(ib.data.cell["A"][out.series[i][1]].Close_normalized,
                                    Int2F(2))
         /\ out.series[i][2] # SkipNaMean(NormalizedPricesAt(out.series[i][1]))

AttemptsAt(p) ==
    {j \in 1..Len(fetch.io) : fetch.io[j].op = "download" /\ fetch.io[j].i = p}

IsOkDownload(e) == e.op = "download" /\ e.ok

Succeeded(p) == \E j \in AttemptsAt(p) : fetch.io[j].ok

\* the last attempt the loader allows for a ticker
IsLastAttempt(e) == e.attempt >= loader.max_retries - 1

\* C22: in get_daily_ohlcv every ticker of the list is attempted at most max_retries
\* times and never again after its first success; every failed attempt but the
\* last allowed one is followed by one time.sleep(delay), and nothing else is; each
\* position of the list contributes at most one frame, the frames being those of
\* the successful tickers in order; and the call ends in ValueError when no ticker
\* succeeded, otherwise it returns the rows of the successful tickers only.
C22_RetriesAndResult ==
    /\ \A p \in 1..Len(fetch.tickers) :
         /\ Cardinality(AttemptsAt(p)) <= loader.max_retries
         /\ \A j, k \in AttemptsAt(p) : j < k => ~fetch.io[j].ok
    /\ \A j \in 1..Len(fetch.io) :
         LET e == fetch.io[j]
         IN  /\ (e.op = "download" /\ ~e.ok /\ ~IsLastAttempt(e))
                  => IF j = Len(fetch.io) THEN fetch.pc = "sleep"
                     ELSE fetch.io[j + 1] =
                            [op |-> "sleep", i |-> e.i, attempt |-> e.attempt,
                             ok |-> FALSE, seconds |-> loader.delay]
             /\ e.op = "sleep"
                  => /\ j > 1
                     /\ fetch.io[j - 1].op = "download"
                     /\ ~fetch.io[j - 1].ok
                     /\ ~IsLastAttempt(fetch.io[j - 1])
    /\ LET ok == SelectSeq(fetch.io, IsOkDownload)
       IN  /\ Len(fetch.all_data) = Len(ok)
           /\ \A k \in 1..Len(ok) : fetch.all_data[k].Symbol = fetch.tickers[ok[k].i]
           /\ \A k, l \in 1..Len(ok) : k < l => ok[k].i < ok[l].i
    /\ fetch.pc = "done"
         => /\ \A p \in 1..Len(fetch.tickers) :
                 Succeeded(p) \/ Cardinality(AttemptsAt(p)) = loader.max_retries
            /\ IF \E p \in 1..Len(fetch.tickers) : Succeeded(p)
               THEN /\ fetch.result.kind = "ok"
                    /\ fetch.result.df_final = pd_concat(fetch.all_data)
                    /\ \A r \in 1..Len(fetch.result.df_final) :
                         \E p \in 1..Len(fetch.tickers) :
                           Succeeded(p) /\ fetch.tickers[p] = fetch.result.df_final[r]
               ELSE /\ fetch.result.kind = "raise"
                    /\ fetch.result.error = "ValueError"

\* a finished call on two tickers with max_retries 3: the first failed twice, each
\* time followed by a delay, and then succeeded; the second failed three times and
\* is left out of the returned rows
C22_Witness ==
    /\ fetch.pc = "done"
    /\ loader.max_retries = 3
    /\ fetch.tickers = <<"A", "B">>
    /\ Len(fetch.io) = 10
    /\ Cardinality(AttemptsAt(1)) = 3 /\ Succeeded(1)
    /\ Cardinality(AttemptsAt(2)) = 3 /\ ~Succeeded(2)
    /\ Cardinality({j \in 1..Len(fetch.io) : fetch.io[j].op = "sleep"}) = 4
    /\ fetch.result.kind = "ok"
    /\ fetch.result.df_final = <<"A">>

\* a finished call in which every attempt of every ticker failed: it ends in
\* ValueError
C22_WitnessNoSuccess ==
    /\ fetch.pc = "done"
    /\ Len(fetch.tickers) = 2
    /\ Len(fetch.io) > 0
    /\ fetch.result.kind = "raise"
====
